---- MODULE Spec2Model ----
(***************************************************************************)
(* Frame lifecycle and GPU/CPU synchronisation of HelloSkiaWindow          *)
(* (src/src/Win32-Ganesh-D3D12.cpp).                                       *)
(*                                                                         *)
(* The CPU side is the single UI/render thread: Run's message pump,        *)
(* WindowProc, RenderFrame, CleanupFrameContexts and the destructor.  The  *)
(* thread is cut into actions only where it blocks (flushAndSubmit with    *)
(* GrSyncCpu::kYes, WaitForSingleObject) and where RenderFrame has chosen  *)
(* its slot.  The GPU side is the shared D3D12 command queue, executed in  *)
(* submission order by GpuStep, with the shared fence and the fence event. *)
(***************************************************************************)
EXTENDS Integers, Sequences, FiniteSets

(* ------------------------------ bounds -------------------------------- *)

\* Largest swap-chain ring size explored (the ring size is drawn from 2..this).
MaxSwapChainLength == 3
\* RenderFrame calls explored in one run of the program (Spec).
MaxFrames == 5
\* RenderFrame calls explored in one run of the program (SpecResize).
MaxResizeFrames == 3
\* Largest width or height, in pixels, that a notification or the window has.
MaxDim == 1
\* WM_SIZE notifications delivered between two RenderFrame calls.
MaxNotifications == 2

Dims == 0..MaxDim
PositiveDims == 1..MaxDim

VARIABLES
    SwapChainLength,   \* N, the ring size (a compile-time constant of the program)
    pc,                \* where the UI/render thread is
    mPendingResize,    \* std::optional<PixelSize>
    mWindowSize,       \* PixelSize
    mExitCode,         \* std::optional<int>
    mFrameIndex,
    mFrameCounter,
    mFenceValue,       \* last marker issued by the CPU
    mFrames,           \* the frame slots
    frame,             \* the slot RenderFrame selected (its `frame` reference)
    swapChain,         \* IDXGISwapChain: size and current back-buffer index
    gpuQueue,          \* mD3DCommandQueue: submitted and not yet executed
    fenceCompleted,    \* mD3DFence->GetCompletedValue()
    eventArmed,        \* values mFenceEvent is registered for on the fence
    eventSet,          \* mFenceEvent is signalled
    failedCall,        \* the native call that reported failure, or "none"
    frameLog,          \* history: what the current RenderFrame/destructor did, in order
    signals,           \* history: every marker handed to a queue signal, in issue order
    visited,           \* history: the slot of every RenderFrame call, in order, and
                       \*          whether the call applied a resize
    notified,          \* history: WM_SIZE since the last RenderFrame: how many, the
                       \*          last size, and whether an earlier size differed
    resizes,           \* history: the sizes the current RenderFrame passed to ResizeBuffers
    lastReset          \* history: what held when the current RenderFrame reset its allocator

vars == <<SwapChainLength, pc, mPendingResize, mWindowSize, mExitCode, mFrameIndex,
          mFrameCounter, mFenceValue, mFrames, frame, swapChain, gpuQueue,
          fenceCompleted, eventArmed, eventSet, failedCall, frameLog, signals,
          visited, notified, resizes, lastReset>>

(* ------------------------------ values -------------------------------- *)

NoBuffer == 0 - 1

PixelSize(w, h) == [mWidth |-> w, mHeight |-> h]

NoResize == [has |-> FALSE, mWidth |-> 0, mHeight |-> 0]

NoSurface == [valid |-> FALSE, width |-> 0, height |-> 0, target |-> NoBuffer]

\* FrameContext after construction of the window object and after release.
EmptyFrame ==
    [mRenderTarget |-> NoBuffer, mRenderTargetView |-> NoBuffer,
     mSkSurface |-> NoSurface, mFenceValue |-> 0]

Slots == 0..(SwapChainLength - 1)

Entry(op, arg, ok) == [op |-> op, arg |-> arg, ok |-> ok]

AppendIf(c, s, x) == IF c THEN Append(s, x) ELSE s

Cmd(op, slot, v, by) == [op |-> op, slot |-> slot, v |-> v, by |-> by]

\* The signals among the queue items cmds, in order.
SignalsOf(cmds) == SelectSeq(cmds, LAMBDA c : c.op = "signal")

NoneNotified == [count |-> 0, last |-> PixelSize(0, 0), differ |-> FALSE]

NoReset ==
    [done |-> FALSE, slot |-> 0, stored |-> 0, reached |-> FALSE, inflight |-> 0,
     issued |-> 0]

\* Work recorded through slot s's allocator or surface that the queue has not executed.
InFlight(q, s) ==
    Cardinality({i \in 1..Len(q) : q[i].slot = s /\ q[i].op \in {"exec", "draw"}})

(* ----------------------- members after construction -------------------- *)

\* Default member initialisers of HelloSkiaWindow (class declaration).
InitialMembers ==
    [mFrameIndex |-> 0, mFrameCounter |-> 0, mFenceValue |-> 0,
     mPendingResize |-> NoResize, mExitCode |-> [has |-> FALSE, value |-> 0]]

\* The fence event is an auto-reset event, unsignalled when created.
WaitForSingleObject(signalled) == [returns |-> signalled, signalledAfter |-> FALSE]

(* --------------------------- native collaborators ---------------------- *)

\* ID3D12Fence::SetEventOnCompletion(v, mFenceEvent) that succeeded: the event is
\* set at once when the fence is already there, and registered otherwise.
SetEventOnCompletion(v, armed, set) ==
    IF fenceCompleted >= v
    THEN [armed |-> armed, set |-> TRUE]
    ELSE [armed |-> armed \cup {v}, set |-> set]

\* IDXGISwapChain::ResizeBuffers(0, w, h, DXGI_FORMAT_UNKNOWN, 0): a zero width or
\* height is replaced by DXGI with the client area's (cw, ch); the back-buffer
\* index returns to 0.
ResizeBuffers(w, h, cw, ch) ==
    [Width |-> IF w = 0 THEN cw ELSE w, Height |-> IF h = 0 THEN ch ELSE h, index |-> 0]

\* CreateSwapChainForHwnd with no size in its description: the swap chain takes
\* the size of the new window's client area, which is not empty.
CreateSwapChainForHwnd == [Width |-> 1, Height |-> 1, index |-> 0]

\* IDXGISwapChain::Present(1, 0) that succeeded, flip model: next back buffer.
Present(sc) == [sc EXCEPT !.index = (sc.index + 1) % SwapChainLength]

(* ------------------------------ operations ----------------------------- *)

\* HelloSkiaWindow::CreateRenderTargets: slot i gets buffer i, view i and a
\* surface of the swap chain's size; the stored marker is left alone.
CreateRenderTargets(frames, sc) ==
    [i \in DOMAIN frames |->
        [frames[i] EXCEPT
            !.mRenderTarget = i,
            !.mRenderTargetView = i,
            !.mSkSurface = [valid |-> TRUE, width |-> sc.Width,
                            height |-> sc.Height, target |-> i]]]

\* Mutant: the release loop leaves the slots' render targets referenced.
ReleaseFramesKeepTargets(frames) ==
    [i \in DOMAIN frames |-> [EmptyFrame EXCEPT !.mRenderTarget = frames[i].mRenderTarget]]

\* The loop of CleanupFrameContexts.
ReleaseFrames(frames) == [i \in DOMAIN frames |-> EmptyFrame]

\* Mutant: CleanupFrameContexts leaves the frame index where it is.
FrameIndexKept == mFrameIndex

\* CleanupFrameContexts: `mFrameIndex = 0`.
FrameIndexAfterCleanup == 0

\* Mutant: RenderFrame does not advance the frame index.
NextFrameIndexStuck(i) == i

\* RenderFrame: `mFrameIndex = (mFrameIndex + 1) % SwapChainLength`.
NextFrameIndex(i) == (i + 1) % SwapChainLength

Init ==
    /\ SwapChainLength \in 2..MaxSwapChainLength
    /\ swapChain = CreateSwapChainForHwnd
    /\ mWindowSize = PixelSize(swapChain.Width, swapChain.Height)
    /\ mFrames = CreateRenderTargets(
                     [i \in 0..(SwapChainLength - 1) |-> EmptyFrame], swapChain)
    /\ pc = "pump"
    /\ mPendingResize = InitialMembers.mPendingResize
    /\ mExitCode = InitialMembers.mExitCode
    /\ mFrameIndex = InitialMembers.mFrameIndex
    /\ mFrameCounter = InitialMembers.mFrameCounter
    /\ mFenceValue = InitialMembers.mFenceValue
    /\ frame = 0
    /\ gpuQueue = <<>>
    /\ fenceCompleted = 0
    /\ eventArmed = {}
    /\ eventSet = FALSE
    /\ failedCall = "none"
    /\ frameLog = <<>>
    /\ signals = <<>>
    /\ visited = <<>>
    /\ notified = NoneNotified
    /\ resizes = <<>>
    /\ lastReset = NoReset

\* Mutant: a notification does not replace a resize that is already pending.
AssignPendingResizeKeepFirst(pending, width, height) ==
    IF pending.has THEN pending ELSE [has |-> TRUE, mWidth |-> width, mHeight |-> height]

\* WindowProc, WM_SIZE: `gInstance->mPendingResize = PixelSize {width, height}`.
AssignPendingResize(pending, width, height) ==
    [has |-> TRUE, mWidth |-> width, mHeight |-> height]

\* WindowProc, WM_SIZE.
WindowProcSize(width, height) ==
    /\ pc = "pump"
    /\ notified.count < MaxNotifications
    /\ mPendingResize' = AssignPendingResize(mPendingResize, width, height)
    /\ notified' = [count |-> notified.count + 1, last |-> PixelSize(width, height),
                    differ |-> \/ notified.differ
                               \/ /\ notified.count > 0
                                  /\ notified.last # PixelSize(width, height)]
    /\ UNCHANGED <<SwapChainLength, pc, mWindowSize, mExitCode, mFrameIndex,
                   mFrameCounter, mFenceValue, mFrames, frame, swapChain, gpuQueue,
                   fenceCompleted, eventArmed, eventSet, failedCall, frameLog,
                   signals, visited, resizes, lastReset>>

\* WindowProc, WM_CLOSE.
WindowProcClose ==
    /\ pc = "pump"
    /\ ~mExitCode.has
    /\ mExitCode' = [has |-> TRUE, value |-> 0]
    /\ UNCHANGED <<SwapChainLength, pc, mPendingResize, mWindowSize, mFrameIndex,
                   mFrameCounter, mFenceValue, mFrames, frame, swapChain, gpuQueue,
                   fenceCompleted, eventArmed, eventSet, failedCall, frameLog,
                   signals, visited, notified, resizes, lastReset>>

\* Run takes WM_QUIT from the message queue and returns; wWinMain then destroys
\* the window object, whose destructor starts CleanupFrameContexts.
RunQuit ==
    /\ pc = "pump"
    /\ pc' = "dtorFlush"
    /\ UNCHANGED <<SwapChainLength, mPendingResize, mWindowSize, mExitCode,
                   mFrameIndex, mFrameCounter, mFenceValue, mFrames, frame,
                   swapChain, gpuQueue, fenceCompleted, eventArmed, eventSet,
                   failedCall, frameLog, signals, visited, notified, resizes,
                   lastReset>>

\* RenderFrame is entered from Run: `if (mPendingResize)`, and with a resize
\* pending CleanupFrameContexts' flushAndSubmit(GrSyncCpu::kYes), which blocks.
BeginFrame(maxFrames) ==
    /\ pc = "pump"
    /\ mFrameCounter < maxFrames
    /\ pc' = IF mPendingResize.has THEN "rfFlush" ELSE "select"
    /\ frameLog' = IF mPendingResize.has
                   THEN <<Entry("flushAndSubmit", 0, TRUE)>> ELSE <<>>
    /\ resizes' = <<>>
    /\ lastReset' = NoReset
    /\ UNCHANGED <<SwapChainLength, mPendingResize, mWindowSize, mExitCode,
                   mFrameIndex, mFrameCounter, mFenceValue, mFrames, frame,
                   swapChain, gpuQueue, fenceCompleted, eventArmed, eventSet,
                   failedCall, signals, visited, notified>>

\* GrDirectContext::flushAndSubmit(GrSyncCpu::kYes) returns once the GPU has
\* finished everything the library submitted.
SkiaIdle(q) == \A i \in 1..Len(q) : q[i].by # "skia"

\* The marker CleanupFrameContexts issues (`++mFenceValue`).
CleanupMarker(fv) == fv + 1

\* CleanupFrameContexts from flushAndSubmit's return to its WaitForSingleObject:
\* a new marker is signalled on the queue and the event armed for it, both
\* checked.  `fail` is the call that reports failure.
CleanupSignalAndArm(fail) ==
    LET fenceValue == CleanupMarker(mFenceValue)
        signalled  == fail # "Signal"
        submitted  == AppendIf(signalled, <<>>, Cmd("signal", 0, fenceValue, "cleanup"))
        arm        == SetEventOnCompletion(fenceValue, eventArmed, eventSet)
    IN  /\ pc \in {"rfFlush", "dtorFlush"}
        /\ SkiaIdle(gpuQueue)
        /\ mFenceValue' = fenceValue
        /\ gpuQueue' = gpuQueue \o submitted
        /\ signals' = signals \o SignalsOf(submitted)
        /\ eventArmed' = IF fail = "none" THEN arm.armed ELSE eventArmed
        /\ eventSet' = IF fail = "none" THEN arm.set ELSE eventSet
        /\ frameLog' = AppendIf(fail = "none",
                          AppendIf(signalled, frameLog, Entry("Signal", fenceValue, TRUE)),
                          Entry("SetEventOnCompletion", fenceValue, TRUE))
        /\ failedCall' = IF fail = "none" THEN failedCall ELSE fail
        /\ pc' = IF fail # "none" THEN "terminated"
                 ELSE IF pc = "rfFlush" THEN "rfQuiesce" ELSE "dtorQuiesce"
        /\ UNCHANGED <<SwapChainLength, mPendingResize, mWindowSize, mExitCode,
                       mFrameIndex, mFrameCounter, mFrames, frame, swapChain,
                       fenceCompleted, visited, notified, resizes, lastReset>>

\* What holds of the GPU when the slots are released: every marker issued so far,
\* and so every stored one, is reached and no slot has work left in the queue.
Quiescent ==
    /\ fenceCompleted >= mFenceValue
    /\ \A i \in DOMAIN mFrames : fenceCompleted >= mFrames[i].mFenceValue
    /\ \A i \in DOMAIN mFrames : InFlight(gpuQueue, i) = 0

\* Buffers of the swap chain still referenced by a slot.
LiveRefs(frames) ==
    Cardinality({i \in DOMAIN frames :
                    frames[i].mRenderTarget # NoBuffer \/ frames[i].mSkSurface.valid})

\* The destructor: CleanupFrameContexts from the return of its wait.
DestructorRelease ==
    LET w == WaitForSingleObject(eventSet)
    IN  /\ pc = "dtorQuiesce"
        /\ w.returns
        /\ eventSet' = w.signalledAfter
        /\ frameLog' = Append(frameLog, Entry("release", 0, Quiescent))
        /\ mFrames' = ReleaseFrames(mFrames)
        /\ mFrameIndex' = FrameIndexAfterCleanup
        /\ pc' = "exited"
        /\ UNCHANGED <<SwapChainLength, mPendingResize, mWindowSize, mExitCode,
                       mFrameCounter, mFenceValue, frame, swapChain, gpuQueue,
                       fenceCompleted, eventArmed, failedCall, signals, visited,
                       notified, resizes, lastReset>>

\* RenderFrame's resize: CleanupFrameContexts from the return of its wait, then
\* ResizeBuffers, CreateRenderTargets, mWindowSize and mPendingResize.  cw x ch is
\* the window's client area, which DXGI uses for a zero width or height.
ReleaseResizeRecreate(fail, cw, ch) ==
    LET w        == WaitForSingleObject(eventSet)
        released == ReleaseFrames(mFrames)
        resized  == ResizeBuffers(mPendingResize.mWidth, mPendingResize.mHeight, cw, ch)
    IN  /\ pc = "rfQuiesce"
        /\ w.returns
        /\ eventSet' = w.signalledAfter
        /\ mFrameIndex' = FrameIndexAfterCleanup
        /\ resizes' = Append(resizes,
                             PixelSize(mPendingResize.mWidth, mPendingResize.mHeight))
        /\ frameLog' = frameLog \o
              <<Entry("release", 0, Quiescent),
                Entry("ResizeBuffers", LiveRefs(released), fail # "ResizeBuffers")>>
        /\ swapChain' = IF fail = "ResizeBuffers" THEN swapChain ELSE resized
        /\ mFrames' = IF fail = "none"
                      THEN CreateRenderTargets(released, resized) ELSE released
        /\ mWindowSize' = IF fail = "none"
                          THEN PixelSize(mPendingResize.mWidth, mPendingResize.mHeight)
                          ELSE mWindowSize
        /\ mPendingResize' = IF fail = "none" THEN NoResize ELSE mPendingResize
        /\ failedCall' = IF fail = "none" THEN failedCall ELSE fail
        /\ pc' = IF fail = "none" THEN "select" ELSE "terminated"
        /\ UNCHANGED <<SwapChainLength, mExitCode, mFrameCounter, mFenceValue, frame,
                       gpuQueue, fenceCompleted, eventArmed, signals, visited,
                       notified, lastReset>>

\* RenderFrame from `++mFrameCounter` to its WaitForSingleObject: the slot is
\* selected and, when its stored marker is not 0, the event is armed for it.  The
\* result of this SetEventOnCompletion is not checked: `armOk` is whether it
\* succeeded.
SelectSlot(armOk) ==
    LET stored == mFrames[mFrameIndex].mFenceValue
        arm    == SetEventOnCompletion(stored, eventArmed, eventSet)
    IN  /\ pc = "select"
        /\ mFrameCounter' = mFrameCounter + 1
        /\ frame' = mFrameIndex
        /\ mFrameIndex' = NextFrameIndex(mFrameIndex)
        /\ visited' = Append(visited, [slot |-> mFrameIndex, resized |-> resizes # <<>>])
        /\ IF stored # 0
           THEN /\ eventArmed' = IF armOk THEN arm.armed ELSE eventArmed
                /\ eventSet' = IF armOk THEN arm.set ELSE eventSet
                /\ failedCall' = IF armOk THEN failedCall ELSE "SetEventOnCompletion"
                /\ frameLog' = frameLog \o
                      <<Entry("select", mFrameIndex, TRUE),
                        Entry("SetEventOnCompletion", stored, armOk)>>
                /\ pc' = "slotWait"
           ELSE /\ armOk
                /\ frameLog' = Append(frameLog, Entry("select", mFrameIndex, TRUE))
                /\ pc' = "record"
                /\ UNCHANGED <<eventArmed, eventSet, failedCall>>
        /\ UNCHANGED <<SwapChainLength, mPendingResize, mWindowSize, mExitCode,
                       mFenceValue, mFrames, swapChain, gpuQueue, fenceCompleted,
                       signals, notified, resizes, lastReset>>

\* RenderFrame's WaitForSingleObject(mFenceEvent, INFINITE) returns.
SlotWake ==
    LET w == WaitForSingleObject(eventSet)
    IN  /\ pc = "slotWait"
        /\ w.returns
        /\ eventSet' = w.signalledAfter
        /\ frameLog' = Append(frameLog, Entry("WaitForSingleObject", 0, TRUE))
        /\ pc' = "record"
        /\ UNCHANGED <<SwapChainLength, mPendingResize, mWindowSize, mExitCode,
                       mFrameIndex, mFrameCounter, mFenceValue, mFrames, frame,
                       swapChain, gpuQueue, fenceCompleted, eventArmed, failedCall,
                       signals, visited, notified, resizes, lastReset>>

\* The checked native calls of RenderFrame after the slot wait, in call order.
FrameCalls == <<"AllocatorReset", "ListReset", "Close", "Signal", "Present">>

\* Position of the failing call in FrameCalls; past the end when none fails.
FailAt(fail) ==
    IF fail = "none" THEN Len(FrameCalls) + 1
    ELSE CHOOSE k \in 1..Len(FrameCalls) : FrameCalls[k] = fail

\* Mutant: RenderFrame reuses the current marker instead of issuing a new one.
NonSkiaMarkerReused(fv) == fv

\* The marker RenderFrame stores in the slot before recording (`++mFenceValue`).
NonSkiaMarker(fv) == fv + 1

\* The marker RenderSkiaContent issues for its flush (`++mFenceValue`).
FlushMarker(fv) == fv + 1

\* RenderFrame: `frame.mFenceValue = ++mFenceValue`, the store.
StoreNonSkiaMarker(ctx, marker) == [ctx EXCEPT !.mFenceValue = marker]

\* Mutant: RenderSkiaContent does not store its flush marker in the slot.
StoreFlushMarkerDropped(ctx, marker) == ctx

\* RenderSkiaContent: `frame.mFenceValue = fenceInfo.fValue`.
StoreFlushMarker(ctx, marker) == [ctx EXCEPT !.mFenceValue = marker]

\* Mutant: the library waits on the marker before the slot's stored one.
SkiaWaitValueStale(ctx) == ctx.mFenceValue - 1

\* The value RenderSkiaContent hands to the library's GPU-side wait: the slot's
\* stored marker at that point, i.e. the one RenderNonSkiaContent signalled.
SkiaWaitValue(ctx) == ctx.mFenceValue

\* Queue items of RenderNonSkiaContent: the command list, then the signal.
NonSkiaSubmission(s, marker, signalOk) ==
    AppendIf(signalOk, <<Cmd("exec", s, 0, "d3d")>>, Cmd("signal", s, marker, "d3d"))

\* Mutant: the library's flush carries no signal semaphore.
SkiaSubmissionUnsignalled(s, waitOn, marker) ==
    <<Cmd("wait", s, waitOn, "skia"), Cmd("draw", s, 0, "skia")>>

\* Queue items of RenderSkiaContent(FrameContext&): the wait, the drawing, and
\* the flush's signal.
SkiaSubmission(s, waitOn, marker) ==
    <<Cmd("wait", s, waitOn, "skia"), Cmd("draw", s, 0, "skia"),
      Cmd("signal", s, marker, "skia")>>

\* RenderFrame from the allocator reset to its return: reset, new marker, list
\* reset, RenderNonSkiaContent, RenderSkiaContent, Present.  Every call listed in
\* FrameCalls is checked; `fail` is the one that reports failure.
RecordSubmitPresent(fail) ==
    LET k       == FailAt(fail)
        stored  == mFrames[frame].mFenceValue
        m1      == NonSkiaMarker(mFenceValue)
        ctx1    == StoreNonSkiaMarker(mFrames[frame], m1)
        waitOn  == SkiaWaitValue(ctx1)
        m2      == FlushMarker(m1)
        ctx2    == StoreFlushMarker(ctx1, m2)
        d3d     == IF k >= 4 THEN NonSkiaSubmission(frame, m1, k >= 5) ELSE <<>>
        skia    == IF k >= 5 THEN SkiaSubmission(frame, waitOn, m2) ELSE <<>>
    IN  /\ pc = "record"
        /\ lastReset' = [done |-> TRUE, slot |-> frame, stored |-> stored,
                         reached |-> fenceCompleted >= stored,
                         inflight |-> InFlight(gpuQueue, frame),
                         issued |-> Len(signals)]
        /\ mFenceValue' = IF k >= 5 THEN m2 ELSE IF k >= 2 THEN m1 ELSE mFenceValue
        /\ mFrames' = IF k >= 5 THEN [mFrames EXCEPT ![frame] = ctx2]
                      ELSE IF k >= 2 THEN [mFrames EXCEPT ![frame] = ctx1]
                      ELSE mFrames
        /\ gpuQueue' = gpuQueue \o d3d \o skia
        /\ signals' = signals \o SignalsOf(d3d \o skia)
        /\ frameLog' = frameLog
              \o <<Entry("ResetAllocator", frame, k >= 2)>>
              \o (IF k >= 2 THEN <<Entry("ResetList", frame, k >= 3)>> ELSE <<>>)
              \o (IF k >= 3 THEN <<Entry("Close", frame, k >= 4)>> ELSE <<>>)
              \o (IF k >= 4 THEN <<Entry("ExecuteCommandLists", frame, TRUE),
                                   Entry("Signal", m1, k >= 5)>> ELSE <<>>)
              \o (IF k >= 5 THEN <<Entry("SkiaWait", waitOn, TRUE),
                                   Entry("SkiaDraw", frame, TRUE),
                                   Entry("SkiaFlush", m2, TRUE),
                                   Entry("Present", swapChain.index, k >= 6)>> ELSE <<>>)
        /\ swapChain' = IF k >= 6 THEN Present(swapChain) ELSE swapChain
        /\ failedCall' = IF fail = "none" THEN failedCall ELSE fail
        /\ notified' = IF k >= 6 THEN NoneNotified ELSE notified
        /\ pc' = IF k < 6 THEN "terminated"
                 ELSE IF mExitCode.has THEN "dtorFlush" ELSE "pump"
        /\ UNCHANGED <<SwapChainLength, mPendingResize, mWindowSize, mExitCode,
                       mFrameIndex, mFrameCounter, frame, fenceCompleted, eventArmed,
                       eventSet, visited, resizes>>

\* A GPU-side wait on v that the fence has not reached.
Blocked(c) == c.op = "wait" /\ fenceCompleted < c.v

\* How far the GPU runs in one step: through the queue, in submission order, up to
\* and including the next signal, stopping before a wait it cannot pass.
GpuRun(q) ==
    CHOOSE n \in 1..Len(q) :
        /\ \A i \in 1..(n - 1) : q[i].op # "signal" /\ ~Blocked(q[i + 1])
        /\ \/ n = Len(q)
           \/ q[n].op = "signal"
           \/ Blocked(q[n + 1])

\* The GPU executes the queue up to its next signal, as long as the process lives.
\* The signal sets the fence and sets the event for every registration it reaches.
GpuStep ==
    LET n == GpuRun(gpuQueue)
        c == gpuQueue[n]
    IN  /\ pc \notin {"terminated", "exited"}
        /\ gpuQueue # <<>>
        /\ ~Blocked(Head(gpuQueue))
        /\ gpuQueue' = SubSeq(gpuQueue, n + 1, Len(gpuQueue))
        /\ fenceCompleted' = IF c.op = "signal" THEN c.v ELSE fenceCompleted
        /\ eventArmed' = IF c.op = "signal"
                         THEN {a \in eventArmed : a > c.v} ELSE eventArmed
        /\ eventSet' = IF c.op = "signal" /\ \E a \in eventArmed : a <= c.v
                       THEN TRUE ELSE eventSet
        /\ UNCHANGED <<SwapChainLength, pc, mPendingResize, mWindowSize, mExitCode,
                       mFrameIndex, mFrameCounter, mFenceValue, mFrames, frame,
                       swapChain, failedCall, frameLog, signals, visited, notified,
                       resizes, lastReset>>

\* The window is minimised, or restored to the size it was created with.
MinimiseRestore ==
    {PixelSize(0, 0), PixelSize(CreateSwapChainForHwnd.Width, CreateSwapChainForHwnd.Height)}

\* Long runs: up to MaxFrames frames for every ring size, with the window being
\* minimised and restored.
Next ==
    \/ \E size \in MinimiseRestore : WindowProcSize(size.mWidth, size.mHeight)
    \/ WindowProcClose
    \/ RunQuit
    \/ BeginFrame(MaxFrames)
    \/ \E fail \in {"none", "Signal", "SetEventOnCompletion"} : CleanupSignalAndArm(fail)
    \/ \E fail \in {"none", "ResizeBuffers", "GetBuffer"}, cw \in PositiveDims,
          ch \in PositiveDims : ReleaseResizeRecreate(fail, cw, ch)
    \/ DestructorRelease
    \/ \E armOk \in BOOLEAN : SelectSlot(armOk)
    \/ SlotWake
    \/ \E fail \in {"none"} \cup {FrameCalls[i] : i \in 1..Len(FrameCalls)} :
          RecordSubmitPresent(fail)
    \/ GpuStep

Spec == Init /\ [][Next]_vars

\* Short runs: up to MaxResizeFrames frames, with every width and height notified.
NextResize ==
    \/ \E width \in Dims, height \in Dims : WindowProcSize(width, height)
    \/ WindowProcClose
    \/ RunQuit
    \/ BeginFrame(MaxResizeFrames)
    \/ \E fail \in {"none", "Signal", "SetEventOnCompletion"} : CleanupSignalAndArm(fail)
    \/ \E fail \in {"none", "ResizeBuffers", "GetBuffer"}, cw \in PositiveDims,
          ch \in PositiveDims : ReleaseResizeRecreate(fail, cw, ch)
    \/ DestructorRelease
    \/ \E armOk \in BOOLEAN : SelectSlot(armOk)
    \/ SlotWake
    \/ \E fail \in {"none"} \cup {FrameCalls[i] : i \in 1..Len(FrameCalls)} :
          RecordSubmitPresent(fail)
    \/ GpuStep

SpecResize == Init /\ [][NextResize]_vars

TypeOK ==
    /\ SwapChainLength \in 2..MaxSwapChainLength
    /\ pc \in {"pump", "rfFlush", "rfQuiesce", "select", "slotWait", "record",
               "dtorFlush", "dtorQuiesce", "exited", "terminated"}
    /\ mFrameIndex \in Slots
    /\ frame \in Slots
    /\ DOMAIN mFrames = Slots

(* ------------------------- reading the histories ------------------------ *)

\* Positions of frameLog that hold an entry of operation op.
At(op) == {i \in 1..Len(frameLog) : frameLog[i].op = op}

\* RenderFrame has returned (and Run has not started the next one).
FrameReturned ==
    /\ pc \in {"pump", "dtorFlush"}
    /\ mFrameCounter > 0
    /\ At("Present") # {}

\* RenderFrame calls so far that applied a resize.
ResizedCalls == {i \in 1..Len(visited) : visited[i].resized}

\* The last marker issued for slot s among the first n signals, since the last
\* quiescence among them; 0 when there is none.
PrevMarker(s, n) ==
    LET uses == {i \in 1..n : /\ signals[i].by # "cleanup"
                              /\ signals[i].slot = s
                              /\ \A j \in (i + 1)..n : signals[j].by # "cleanup"}
    IN  IF uses = {} THEN 0
        ELSE signals[CHOOSE i \in uses : \A j \in uses : j <= i].v

StrictlyIncreasing(seq) ==
    \A i \in 1..Len(seq), j \in 1..Len(seq) : i < j => seq[i].v < seq[j].v

(* -------------------------------- claims -------------------------------- *)

\* C1: the selected slot's allocator (and the command list bound to it) is reset
\* only if the slot's stored marker is 0, or the event was armed after the slot's
\* selection for exactly that marker and the fence has reached it; the stored
\* marker is the last one issued in the slot's previous use, and no work recorded
\* for the slot is still in the queue at the reset.
C1_ResetOnlyWhenSlotIdle ==
    lastReset.done =>
        /\ \/ lastReset.stored = 0
           \/ /\ lastReset.reached
              /\ \E i \in At("SetEventOnCompletion"), j \in At("select") :
                    /\ j < i
                    /\ frameLog[i].arg = lastReset.stored
                    /\ frameLog[i].ok
        /\ lastReset.stored = PrevMarker(lastReset.slot, lastReset.issued)
        /\ lastReset.inflight = 0

C1_Witness ==
    /\ lastReset.done
    /\ lastReset.stored > 0
    /\ lastReset.reached
    /\ ResizedCalls # {}
    /\ failedCall = "none"

\* C2: in every frame the library's GPU-side wait is on exactly the marker that
\* frame's non-library submission signalled, issued after that signal and before
\* the frame's library drawing and flush, with no CPU wait in between; in the
\* queue the wait directly follows that signal and precedes the drawing, so the
\* drawing cannot start before the frame's clear has completed.
C2_SkiaWaitsOnNonSkiaMarker ==
    /\ \A w \in At("SkiaWait") :
          /\ \E g \in At("Signal"), x \in At("ExecuteCommandLists") :
                /\ x < g /\ g < w
                /\ frameLog[g].ok
                /\ frameLog[g].arg = frameLog[w].arg
                /\ \A b \in At("WaitForSingleObject") \cup At("flushAndSubmit"),
                      f \in At("SkiaFlush") : ~(x < b /\ b < f)
          /\ \A d \in At("SkiaDraw") \cup At("SkiaFlush") : w < d
          /\ frameLog[w].arg > fenceCompleted =>
                \E i \in 1..Len(gpuQueue) :
                    gpuQueue[i].op = "signal" /\ gpuQueue[i].v = frameLog[w].arg
    /\ \A i \in 1..Len(gpuQueue) :
          /\ gpuQueue[i].op = "wait" =>
                \/ i = 1 /\ fenceCompleted = gpuQueue[i].v
                \/ /\ i > 2
                   /\ gpuQueue[i - 1] = Cmd("signal", gpuQueue[i].slot, gpuQueue[i].v, "d3d")
                   /\ gpuQueue[i - 2] = Cmd("exec", gpuQueue[i].slot, 0, "d3d")
          /\ gpuQueue[i].op = "draw" =>
                i > 1 /\ gpuQueue[i - 1].op = "wait" /\ gpuQueue[i - 1].slot = gpuQueue[i].slot

C2_Witness ==
    /\ At("SkiaWait") # {}
    /\ At("SkiaFlush") # {}
    /\ \E i \in 1..Len(gpuQueue) : gpuQueue[i].op = "wait" /\ gpuQueue[i].v > fenceCompleted
    /\ mFrameCounter >= 2

\* C3: whenever CleanupFrameContexts releases the slots (before a resize or at
\* shutdown) every marker issued so far, and so every stored one, has been
\* reached and no slot has work in the queue; the swap chain is resized only
\* after the release, when no slot references a buffer.
C3_ReleaseOnlyWhenQuiescent ==
    /\ \A r \in At("release") : frameLog[r].ok
    /\ \A z \in At("ResizeBuffers") :
          /\ frameLog[z].arg = 0
          /\ \E r \in At("release") : r < z
    /\ pc = "exited" => /\ At("release") # {}
                        /\ \A i \in DOMAIN mFrames : mFrames[i] = EmptyFrame

C3_Witness ==
    /\ At("ResizeBuffers") # {}
    /\ At("release") # {}
    /\ mFrameCounter >= 2
    /\ pc = "select"

\* C4: k >= 1 size notifications between two RenderFrame calls make the next call
\* resize the swap chain exactly once, to the last notified size, before it
\* selects a slot, and clear the pending resize; a call that no notification
\* preceded resizes nothing.
C4_ResizeCoalesced ==
    pc \in {"select", "slotWait", "record"} =>
        IF notified.count >= 1
        THEN /\ resizes = <<notified.last>>
             /\ ~mPendingResize.has
             /\ Cardinality(At("ResizeBuffers")) = 1
             /\ \A z \in At("ResizeBuffers"), j \in At("select") \cup At("ResetAllocator") :
                   z < j
        ELSE /\ resizes = <<>>
             /\ At("ResizeBuffers") = {}

C4_Witness ==
    /\ pc = "record"
    /\ notified.count >= 2
    /\ notified.differ
    /\ resizes = <<notified.last>>
    /\ mFrameCounter >= 2

\* C5, as claimed: the slot of every call is the slot of the call before it plus
\* one, modulo the ring size, starting from slot 0.
C5_Original ==
    /\ Len(visited) >= 1 => visited[1].slot = 0
    /\ \A i \in 1..(Len(visited) - 1) :
          visited[i + 1].slot = (visited[i].slot + 1) % SwapChainLength

\* C5, amended: the first call uses slot 0, a call that applies a pending resize
\* uses slot 0, and every other call uses the slot of the call before it plus
\* one, modulo the ring size.
C5_RoundRobinBetweenResizes ==
    /\ Len(visited) >= 1 => visited[1].slot = 0
    /\ \A i \in 1..(Len(visited) - 1) :
          visited[i + 1].slot =
              IF visited[i + 1].resized THEN 0
              ELSE (visited[i].slot + 1) % SwapChainLength

C5_Witness ==
    /\ Len(visited) >= SwapChainLength + 2
    /\ SwapChainLength = 3
    /\ \E i \in 2..Len(visited) : visited[i].resized /\ visited[i - 1].slot = 0
    /\ \E i \in 2..Len(visited) : visited[i].slot = 0 /\ ~visited[i].resized

\* C6: the markers handed to queue signals (non-library, library flush, and the
\* quiescence signal of CleanupFrameContexts), in issue order, strictly increase.
C6_MarkersStrictlyIncrease ==
    /\ StrictlyIncreasing(signals)
    /\ \A i \in 1..Len(signals) : signals[i].v > 0 /\ signals[i].v <= mFenceValue

C6_Witness ==
    /\ \E i \in 1..Len(signals) : signals[i].by = "cleanup" /\ i > 2 /\ i < Len(signals)
    /\ \E i \in 1..Len(signals) : signals[i].by = "skia"
    /\ \E i \in DOMAIN mFrames : mFrames[i].mFenceValue = 0
    /\ Len(signals) >= 5

\* C7: a RenderFrame call that applies no resize causes exactly two signals, the
\* non-library one and then the library flush's, the second greater than the
\* first; so with ring size 2, five calls and no resize there are exactly ten
\* signals, strictly increasing, and the slots visited are 0, 1, 0, 1, 0.
C7_TwoSignalsPerFrame ==
    FrameReturned =>
        /\ Len(signals) = 2 * mFrameCounter + Cardinality(ResizedCalls)
        /\ LET n == Len(signals)
           IN  /\ n >= 2
               /\ signals[n - 1].by = "d3d" /\ signals[n].by = "skia"
               /\ signals[n - 1].slot = frame /\ signals[n].slot = frame
               /\ signals[n - 1].v < signals[n].v
               /\ \E g \in At("Signal") : frameLog[g].arg = signals[n - 1].v
               /\ \E g \in At("SkiaFlush") : frameLog[g].arg = signals[n].v
        /\ (SwapChainLength = 2 /\ mFrameCounter = 5 /\ ResizedCalls = {}) =>
              /\ Len(signals) = 10
              /\ StrictlyIncreasing(signals)
              /\ [i \in 1..5 |-> visited[i].slot] = <<0, 1, 0, 1, 0>>

C7_Witness ==
    /\ FrameReturned
    /\ SwapChainLength = 2
    /\ mFrameCounter = 5
    /\ ResizedCalls = {}
    /\ Len(signals) = 10

\* C8, as claimed: after RenderFrame applies a pending resize to w x h, zero
\* sizes included, every slot is recreated with stored marker 0, every surface
\* is exactly w x h, and the recorded window size equals the surfaces' size.
C8_SurfacesMatchNotifiedSize ==
    (pc = "select" /\ resizes # <<>>) =>
        \A i \in DOMAIN mFrames :
            /\ mFrames[i].mRenderTarget # NoBuffer
            /\ mFrames[i].mRenderTargetView # NoBuffer
            /\ mFrames[i].mSkSurface.valid
            /\ mFrames[i].mFenceValue = 0
            /\ mFrames[i].mSkSurface.width = resizes[1].mWidth
            /\ mFrames[i].mSkSurface.height = resizes[1].mHeight
            /\ mWindowSize.mWidth = mFrames[i].mSkSurface.width
            /\ mWindowSize.mHeight = mFrames[i].mSkSurface.height

\* C9, as claimed: a native call that reports failure ends the program at once;
\* the thread never goes on past it into a wait, a reset, a submission or a
\* present.
C9_FailureIsFatal == failedCall # "none" => pc = "terminated"

\* C10: when RenderFrame selects its slot the frame index equals the swap chain's
\* current back-buffer index, and the slot selected holds that buffer, so the
\* buffer cleared and drawn is the one the frame's Present shows.
C10_FrameIndexLockStep ==
    /\ pc = "select" => mFrameIndex = swapChain.index
    /\ pc \in {"slotWait", "record"} =>
          /\ frame = swapChain.index
          /\ mFrames[frame].mRenderTarget = swapChain.index
          /\ mFrames[frame].mRenderTargetView = swapChain.index
          /\ mFrames[frame].mSkSurface.target = swapChain.index
    /\ \A p \in At("Present"), x \in At("ExecuteCommandLists") \cup At("SkiaDraw") :
          frameLog[p].arg = frameLog[x].arg

C10_Witness ==
    /\ pc = "select"
    /\ mFrameIndex = SwapChainLength - 1
    /\ ResizedCalls # {}
    /\ \E i \in 1..(Len(visited) - 1) : visited[i].resized
    /\ At("Present") = {}

====
